---- MODULE Spec2Model ----
(***************************************************************************)
(* A model of src/lib/Sentence.js: the Sentence and Token objects of a     *)
(* CoNLL-U library, their `serial` accessors (parse and serialize) and the *)
(* structural edits expand and collapse.                                   *)
(*                                                                         *)
(* Text is modelled character by character: a JavaScript string is a       *)
(* sequence of one-character strings, so that split, join, slice, Number   *)
(* and String are computed, not assumed.  The alphabet of the model is the *)
(* digits, a few letters, "_", "-", "#", "=", the space, the tab and the   *)
(* newline.                                                                *)
(*                                                                         *)
(* A JavaScript value is a record [t, n, s]: t is its type ("undefined",   *)
(* "number", "NaN" or "string"), n the number and s the characters.        *)
(***************************************************************************)
EXTENDS Integers, Sequences, FiniteSets

VARIABLES input, metadata, tokens, err, out, log, nEdits, nParses, line, tok, tout, tpc

vars == <<input, metadata, tokens, err, out, log, nEdits, nParses, line, tok, tout, tpc>>

sentenceVars == <<input, metadata, tokens, err, out, log, nEdits, nParses>>

tokenVars == <<line, tok, tout, tpc>>

(***************************************************************************)
(* Bounds of the model.                                                    *)
(***************************************************************************)
MaxLines == 3

MaxComments == 2

MaxId == 2

MaxEntries == 2

MaxMwtLen == 3

MaxIndex == 2

MaxEdits == 2

MaxParses == 2

(***************************************************************************)
(* JavaScript values.                                                      *)
(***************************************************************************)
Undefined == [t |-> "undefined", n |-> 0, s |-> <<>>]

NaN == [t |-> "NaN", n |-> 0, s |-> <<>>]

Num(k) == [t |-> "number", n |-> k, s |-> <<>>]

Str(cs) == [t |-> "string", n |-> 0, s |-> cs]

Digits == <<"0", "1", "2", "3", "4", "5", "6", "7", "8", "9">>

DigitVal(c) == (CHOOSE d \in 1..10 : Digits[d] = c) - 1

IsDigit(c) == \E d \in 1..10 : Digits[d] = c

IsWhite(c) == c \in {" ", "\t", "\n"}

AllDigits(cs) == cs # <<>> /\ \A i \in 1..Len(cs) : IsDigit(cs[i])

RECURSIVE DecVal(_)
DecVal(cs) ==
  IF cs = <<>> THEN 0
  ELSE 10 * DecVal(SubSeq(cs, 1, Len(cs) - 1)) + DigitVal(cs[Len(cs)])

RECURSIVE DecStr(_)
DecStr(k) ==
  IF k < 10 THEN <<Digits[k + 1]>>
  ELSE DecStr(k \div 10) \o <<Digits[(k % 10) + 1]>>

RECURSIVE TrimLeft(_)
TrimLeft(cs) ==
  IF cs # <<>> /\ IsWhite(Head(cs)) THEN TrimLeft(Tail(cs)) ELSE cs

RECURSIVE TrimRight(_)
TrimRight(cs) ==
  IF cs # <<>> /\ IsWhite(cs[Len(cs)])
  THEN TrimRight(SubSeq(cs, 1, Len(cs) - 1))
  ELSE cs

\* Number(string): white space is trimmed, the empty string is 0, a decimal
\* literal with an optional minus sign is its value, anything else is NaN.
StringToNumber(cs) ==
  LET t == TrimRight(TrimLeft(cs)) IN
  IF t = <<>> THEN Num(0)
  ELSE IF AllDigits(t) THEN Num(DecVal(t))
  ELSE IF Head(t) = "-" /\ AllDigits(Tail(t)) THEN Num(0 - DecVal(Tail(t)))
  ELSE NaN

\* Number(v)
NumberOf(v) ==
  CASE v.t = "number" -> v
    [] v.t = "NaN" -> NaN
    [] v.t = "undefined" -> NaN
    [] v.t = "string" -> StringToNumber(v.s)

\* String(v)
StringOf(v) ==
  CASE v.t = "number" ->
         IF v.n < 0 THEN <<"-">> \o DecStr(0 - v.n) ELSE DecStr(v.n)
    [] v.t = "NaN" -> <<"N", "a", "N">>
    [] v.t = "undefined" -> <<"u", "n", "d", "e", "f", "i", "n", "e", "d">>
    [] v.t = "string" -> v.s

\* the truthiness of a number, as in `if (Number(fields[0]))`
Truthy(v) == v.t = "number" /\ v.n # 0

\* a === b
StrictEq(a, b) == a.t # "NaN" /\ a = b

\* v + k and v - k on a value that JavaScript first converts to a number
Plus(v, k) ==
  LET x == NumberOf(v) IN IF x.t = "NaN" THEN NaN ELSE Num(x.n + k)

(***************************************************************************)
(* Strings: split, join, slice, startsWith, includes, indexOf.             *)
(***************************************************************************)
\* s.indexOf(c), 1-based; 0 when c does not occur
IndexOf(cs, c) ==
  IF \E i \in 1..Len(cs) : cs[i] = c
  THEN CHOOSE i \in 1..Len(cs) : cs[i] = c /\ \A j \in 1..(i - 1) : cs[j] # c
  ELSE 0

Includes(cs, c) == IndexOf(cs, c) # 0

StartsWith(cs, c) == cs # <<>> /\ Head(cs) = c

RECURSIVE Split(_, _)
Split(cs, c) ==
  LET i == IndexOf(cs, c) IN
  IF i = 0 THEN <<cs>>
  ELSE <<SubSeq(cs, 1, i - 1)>> \o Split(SubSeq(cs, i + 1, Len(cs)), c)

RECURSIVE Join(_, _)
Join(ss, sep) ==
  IF ss = <<>> THEN <<>>
  ELSE IF Len(ss) = 1 THEN ss[1]
  ELSE ss[1] \o sep \o Join(Tail(ss), sep)

\* the position a slice argument denotes in a string of length len
SliceIndex(k, len) ==
  IF k < 0 THEN (IF len + k < 0 THEN 0 ELSE len + k)
  ELSE IF k > len THEN len ELSE k

\* s.slice(from, to), 0-based, `to` excluded
Slice(cs, from, to) ==
  SubSeq(cs, SliceIndex(from, Len(cs)) + 1, SliceIndex(to, Len(cs)))

\* s.slice(from)
SliceFrom(cs, from) == SubSeq(cs, SliceIndex(from, Len(cs)) + 1, Len(cs))

(***************************************************************************)
(* Token: the ten fields and the `serial` accessor.  A Token and a         *)
(* MultiwordToken are records of the same shape, told apart by `kind`      *)
(* (the `instanceof MultiwordToken` test of the source); `tokens` holds    *)
(* the children of a MultiwordToken and is empty in a Token.               *)
(***************************************************************************)
Tab == "\t"

Newline == "\n"

Placeholder == <<"_">>

NewToken ==
  [kind |-> "Token", id |-> Undefined, form |-> Str(<<>>), lemma |-> Undefined,
   upostag |-> Undefined, xpostag |-> Undefined, feats |-> Undefined,
   head |-> Undefined, deprel |-> Undefined, deps |-> Undefined,
   misc |-> Undefined, tokens |-> <<>>]

\* `!(x === undefined) && !(x === "")`
IsSet(v) == v # Undefined /\ v # Str(<<>>)

FieldOutput(v) == IF IsSet(v) THEN StringOf(v) ELSE Placeholder

\* form_output: the guard of the source tests this.id, not this.form
FormOutput(self) == IF IsSet(self.id) THEN StringOf(self.form) ELSE Placeholder

TokenSerialGet(self) ==
  Join(<<FieldOutput(self.id), FormOutput(self), FieldOutput(self.lemma),
         FieldOutput(self.upostag), FieldOutput(self.xpostag),
         FieldOutput(self.feats), FieldOutput(self.head),
         FieldOutput(self.deprel), FieldOutput(self.deps),
         FieldOutput(self.misc)>>, <<Tab>>)

\* fields[k] of the source (0-based there, 1-based here): undefined past the end
FieldAt(fields, k) == IF k <= Len(fields) THEN Str(fields[k]) ELSE Undefined

TokenId(field) ==
  IF Truthy(StringToNumber(field)) THEN StringToNumber(field) ELSE Str(field)

TokenSerialSet(self, arg) ==
  LET fields == Split(arg, Tab) IN
  [self EXCEPT !.id = TokenId(fields[1]),
               !.form = FieldAt(fields, 2),
               !.lemma = FieldAt(fields, 3),
               !.upostag = FieldAt(fields, 4),
               !.xpostag = FieldAt(fields, 5),
               !.feats = FieldAt(fields, 6),
               !.head = FieldAt(fields, 7),
               !.deprel = FieldAt(fields, 8),
               !.deps = FieldAt(fields, 9),
               !.misc = FieldAt(fields, 10)]

(***************************************************************************)
(* MultiwordToken.  Its file is not part of the sources at hand; it is     *)
(* modelled from the specification (sections 3 and 4.2): a form, the       *)
(* children, an id read live from the first and the last child, a parse    *)
(* that fails with MalformedGroupError when the child lines do not match   *)
(* the declared span.                                                      *)
(***************************************************************************)
NewMultiwordToken == [NewToken EXCEPT !.kind = "MultiwordToken"]

IsMultiwordToken(e) == e.kind = "MultiwordToken"

\* "<first>-<last>", read from the children
MultiwordTokenId(self) ==
  Str(StringOf(self.tokens[1].id) \o <<"-">>
      \o StringOf(self.tokens[Len(self.tokens)].id))

\* the id of an entry of Sentence.tokens, as `this.tokens[i].id` reads it
EntryId(e) == IF IsMultiwordToken(e) THEN MultiwordTokenId(e) ELSE e.id

MultiwordTokenSerialGet(self) ==
  Join(<<Join(<<MultiwordTokenId(self).s, FieldOutput(self.form)>>
              \o [k \in 1..8 |-> Placeholder], <<Tab>>)>>
       \o [k \in 1..Len(self.tokens) |-> TokenSerialGet(self.tokens[k])],
       <<Newline>>)

\* the numbers first..last of a range id "<first>-<last>"; empty when either
\* part is not a number (the `while (first <= last)` loop of the caller)
RangeSpan(mwtId) ==
  LET dashIndex == IndexOf(mwtId, "-")
      first == StringToNumber(SubSeq(mwtId, 1, dashIndex - 1))
      last == StringToNumber(SubSeq(mwtId, dashIndex + 1, Len(mwtId)))
  IN IF first.t = "number" /\ last.t = "number" /\ first.n <= last.n
     THEN [k \in 1..(last.n - first.n + 1) |-> first.n + k - 1]
     ELSE <<>>

\* [ok, mwt]: ok is FALSE where the specification has MalformedGroupError
MultiwordTokenSerialSet(self, arg) ==
  LET lines == Split(arg, Newline)
      fields == Split(lines[1], Tab)
      span == RangeSpan(fields[1])
      children == [k \in 1..(Len(lines) - 1) |-> TokenSerialSet(NewToken, lines[k + 1])]
  IN [ok |-> /\ Len(children) = Len(span)
             /\ \A k \in 1..Len(children) : children[k].id = Num(span[k]),
      mwt |-> [self EXCEPT !.form = FieldAt(fields, 2), !.tokens = children]]

EntrySerialGet(e) ==
  IF IsMultiwordToken(e) THEN MultiwordTokenSerialGet(e) ELSE TokenSerialGet(e)

(***************************************************************************)
(* The metadata object.  A JavaScript object is modelled as the sequence   *)
(* of its [key, value] properties in creation order; Object.entries lists *)
(* the keys that are array indices first, in ascending numeric order, and  *)
(* then the other keys in creation order.                                  *)
(***************************************************************************)
HasKey(obj, key) == \E k \in 1..Len(obj) : obj[k].key = key

\* a variant that keeps the value a key already has
ObjectSetKeepsFirst(obj, key, value) ==
  IF HasKey(obj, key) THEN obj ELSE Append(obj, [key |-> key, value |-> value])

\* obj[key] = value
ObjectSet(obj, key, value) ==
  IF HasKey(obj, key)
  THEN [k \in 1..Len(obj) |->
          IF obj[k].key = key THEN [key |-> key, value |-> value] ELSE obj[k]]
  ELSE Append(obj, [key |-> key, value |-> value])

\* a canonical array index: "0", or digits without a leading zero
IsArrayIndex(key) == AllDigits(key) /\ (Len(key) = 1 \/ key[1] # "0")

RECURSIVE SortByIndex(_)
SortByIndex(props) ==
  IF props = <<>> THEN <<>>
  ELSE LET m == CHOOSE k \in 1..Len(props) :
                  \A j \in 1..Len(props) : DecVal(props[k].key) <= DecVal(props[j].key)
       IN <<props[m]>>
          \o SortByIndex(SubSeq(props, 1, m - 1) \o SubSeq(props, m + 1, Len(props)))

ObjectEntries(obj) ==
  SortByIndex(SelectSeq(obj, LAMBDA p : IsArrayIndex(p.key)))
  \o SelectSeq(obj, LAMBDA p : ~IsArrayIndex(p.key))

(***************************************************************************)
(* Sentence: the `serial` accessor.                                        *)
(***************************************************************************)
NewSentence == [metadata |-> <<>>, tokens |-> <<>>]

MetadataLine(p) == <<"#", " ">> \o p.key \o <<" ", "=", " ">> \o p.value

SentenceSerialGet(self) ==
  LET entries == ObjectEntries(self.metadata) IN
  Join([k \in 1..Len(entries) |-> MetadataLine(entries[k])]
       \o [k \in 1..Len(self.tokens) |-> EntrySerialGet(self.tokens[k])]
       \o << <<>> >>,
       <<Newline>>)

\* " = " starts at position q of ln
IsSeparatorAt(ln, q) ==
  q + 2 <= Len(ln) /\ ln[q] = " " /\ ln[q + 1] = "=" /\ ln[q + 2] = " "

\* the regular expression "# (.*) = (.*)" can match ln starting at position p
MatchesAt(ln, p) ==
  /\ p + 1 <= Len(ln)
  /\ ln[p] = "#"
  /\ ln[p + 1] = " "
  /\ \E q \in (p + 2)..Len(ln) : IsSeparatorAt(ln, q)

\* metadataRegex.exec(ln): the leftmost match, its first group greedy
MetadataMatch(ln) ==
  IF \E p \in 1..Len(ln) : MatchesAt(ln, p)
  THEN LET p == CHOOSE p \in 1..Len(ln) :
                  MatchesAt(ln, p) /\ \A r \in 1..(p - 1) : ~MatchesAt(ln, r)
           q == CHOOSE q \in (p + 2)..Len(ln) :
                  /\ IsSeparatorAt(ln, q)
                  /\ \A r \in (q + 1)..Len(ln) : ~IsSeparatorAt(ln, r)
       IN [matched |-> TRUE,
           key |-> SubSeq(ln, p + 2, q - 1),
           value |-> SubSeq(ln, q + 3, Len(ln))]
  ELSE [matched |-> FALSE, key |-> <<>>, value |-> <<>>]

\* the first loop of the setter: the metadata of the comment lines
RECURSIVE MetadataPass(_, _, _)
MetadataPass(obj, lines, i) ==
  IF i > Len(lines) THEN obj
  ELSE LET m == MetadataMatch(lines[i]) IN
       IF StartsWith(lines[i], "#") /\ m.matched
       THEN MetadataPass(ObjectSet(obj, m.key, m.value), lines, i + 1)
       ELSE MetadataPass(obj, lines, i + 1)

\* mwtString: the range line and every line whose first field is in the span
MwtString(lines, i, span) ==
  LET spanStr == [x \in 1..Len(span) |-> StringOf(Num(span[x]))]
      IsChild(ln) == \E x \in 1..Len(spanStr) : spanStr[x] = Split(ln, Tab)[1]
  IN Join(<<lines[i]>> \o SelectSeq(lines, IsChild), <<Newline>>)

\* what the range-line branch adds to Sentence.tokens
RangeEntries(mwt) == mwt.tokens

\* the second loop of the setter; [tokens, err]
RECURSIVE TokenPass(_, _, _, _)
TokenPass(toks, lines, i, mwtSubIds) ==
  IF i > Len(lines) THEN [tokens |-> toks, err |-> "none"]
  ELSE LET fields == Split(lines[i], Tab)
           currentLineId == fields[1]
       IN IF StartsWith(lines[i], "#") \/ lines[i] = <<>>
          THEN TokenPass(toks, lines, i + 1, mwtSubIds)
          ELSE IF Includes(fields[1], "-")
          THEN LET span == RangeSpan(fields[1])
                   setMwt == MultiwordTokenSerialSet(NewMultiwordToken,
                                                     MwtString(lines, i, span))
               IN IF setMwt.ok
                  THEN TokenPass(toks \o RangeEntries(setMwt.mwt), lines, i + 1,
                                 {span[x] : x \in 1..Len(span)})
                  ELSE [tokens |-> toks, err |-> "MalformedGroupError"]
          ELSE IF \/ StringToNumber(currentLineId).t # "number"
                  \/ StringToNumber(currentLineId).n \notin mwtSubIds
          THEN TokenPass(Append(toks, TokenSerialSet(NewToken, lines[i])),
                         lines, i + 1, mwtSubIds)
          ELSE TokenPass(toks, lines, i + 1, mwtSubIds)

\* a variant that resets the metadata and keeps the tokens
ClearedMetadataOnly(self) == [self EXCEPT !.metadata = <<>>]

\* `this.metadata = {}; this.tokens = [];`
Cleared(self) == [self EXCEPT !.metadata = <<>>, !.tokens = <<>>]

\* [metadata, tokens, err]
SentenceSerialSet(self, arg) ==
  LET lines == Split(arg, Newline)
      start == Cleared(self)
      pass == TokenPass(start.tokens, lines, 1, {})
  IN [metadata |-> MetadataPass(start.metadata, lines, 1),
      tokens |-> pass.tokens,
      err |-> pass.err]

(***************************************************************************)
(* Sentence: expand and collapse.                                          *)
(***************************************************************************)
\* a variant that forgets the children of a MultiwordToken
ShiftEntryTokensOnly(e, k) ==
  IF IsMultiwordToken(e) THEN e ELSE [e EXCEPT !.id = Plus(@, k)]

\* `id++` on a Token, on every child of a MultiwordToken (k = 1), and the
\* subtraction of collapse (k = -(mwt_length - 1))
ShiftEntry(e, k) ==
  IF IsMultiwordToken(e)
  THEN [e EXCEPT !.tokens = [c \in 1..Len(e.tokens) |->
                               [e.tokens[c] EXCEPT !.id = Plus(@, k)]]]
  ELSE [e EXCEPT !.id = Plus(@, k)]

\* a variant that copies the expanded Token into both halves
ExpandTokenKeepsFields(t, index) ==
  [NewMultiwordToken EXCEPT
     !.form = t.form,
     !.tokens = <<[t EXCEPT !.form = Str(Slice(t.form.s, 0, index))],
                  [t EXCEPT !.form = Str(SliceFrom(t.form.s, index)),
                            !.id = Plus(t.id, 1)]>>]

\* a variant that gives both halves the id of the expanded Token
ExpandTokenSameId(t, index) ==
  [NewMultiwordToken EXCEPT
     !.form = t.form,
     !.tokens = <<[NewToken EXCEPT !.form = Str(Slice(t.form.s, 0, index)),
                                   !.id = t.id],
                  [NewToken EXCEPT !.form = Str(SliceFrom(t.form.s, index)),
                                   !.id = t.id]>>]

\* the MultiwordToken that replaces the expanded Token
ExpandToken(t, index) ==
  [NewMultiwordToken EXCEPT
     !.form = t.form,
     !.tokens = <<[NewToken EXCEPT !.form = Str(Slice(t.form.s, 0, index)),
                                   !.id = t.id],
                  [NewToken EXCEPT !.form = Str(SliceFrom(t.form.s, index)),
                                   !.id = Plus(t.id, 1)]>>]

\* a variant that forgets the `instanceof MultiwordToken` test
ExpandMatchesAnyKind(e, token_id) == StrictEq(EntryId(e), token_id)

ExpandMatches(e, token_id) ==
  StrictEq(EntryId(e), token_id) /\ ~IsMultiwordToken(e)

\* the loop of expand from position i on; [tokens, err]
RECURSIVE ExpandLoop(_, _, _, _, _)
ExpandLoop(toks, i, found, token_id, index) ==
  IF i > Len(toks) THEN [tokens |-> toks, err |-> "none"]
  ELSE IF found
  THEN ExpandLoop([toks EXCEPT ![i] = ShiftEntry(@, 1)], i + 1, TRUE,
                  token_id, index)
  ELSE IF ExpandMatches(toks[i], token_id)
  THEN IF toks[i].form.t # "string"
       THEN [tokens |-> toks, err |-> "TypeError"]
       ELSE ExpandLoop([toks EXCEPT ![i] = ExpandToken(@, index)], i + 1, TRUE,
                       token_id, index)
  ELSE ExpandLoop(toks, i + 1, FALSE, token_id, index)

\* a variant that replaces every matching Token, not the first one only
expandEveryMatch(self, token_id, index) ==
  [metadata |-> self.metadata,
   tokens |-> [k \in 1..Len(self.tokens) |->
                 IF ExpandMatches(self.tokens[k], token_id)
                 THEN ExpandToken(self.tokens[k], index)
                 ELSE self.tokens[k]],
   err |-> "none"]

expand(self, token_id, index) ==
  LET r == ExpandLoop(self.tokens, 1, FALSE, token_id, index) IN
  [metadata |-> self.metadata, tokens |-> r.tokens, err |-> r.err]

\* a variant that takes the id of the last child
CollapsedLastId(m) ==
  [NewToken EXCEPT !.id = NumberOf(m.tokens[Len(m.tokens)].id), !.form = m.form]

\* the Token that replaces the collapsed MultiwordToken
Collapsed(m) ==
  [NewToken EXCEPT !.id = NumberOf(m.tokens[1].id), !.form = m.form]

\* a variant that takes the id of the first child for the id of the group
CollapseMatchesFirstChild(e, token_id) ==
  IsMultiwordToken(e) /\ StrictEq(e.tokens[1].id, token_id)

CollapseMatches(e, token_id) ==
  StrictEq(EntryId(e), token_id) /\ IsMultiwordToken(e)

\* a variant that subtracts the whole length
CollapseShiftWholeLength(mwt_length) == 0 - mwt_length

\* what collapse adds to the ids after the group: -(mwt_length - 1)
CollapseShift(mwt_length) == 0 - (mwt_length - 1)

\* the loop of collapse from position i on
RECURSIVE CollapseLoop(_, _, _, _, _)
CollapseLoop(toks, i, found, mwt_length, token_id) ==
  IF i > Len(toks) THEN toks
  ELSE IF found
  THEN CollapseLoop([toks EXCEPT ![i] = ShiftEntry(@, CollapseShift(mwt_length))],
                    i + 1, TRUE, mwt_length, token_id)
  ELSE IF CollapseMatches(toks[i], token_id)
  THEN CollapseLoop([toks EXCEPT ![i] = Collapsed(@)], i + 1, TRUE,
                    Len(toks[i].tokens), token_id)
  ELSE CollapseLoop(toks, i + 1, FALSE, mwt_length, token_id)

collapse(self, token_id) ==
  [metadata |-> self.metadata,
   tokens |-> CollapseLoop(self.tokens, 1, FALSE, 0, token_id),
   err |-> "none"]

(***************************************************************************)
(* The inputs of the model.                                                *)
(***************************************************************************)
\* the sequences over S of length lo..hi
SeqsOf(S, lo, hi) == UNION {[1..k -> S] : k \in lo..hi}

FormAB == <<"a", "b">>

FormCD == <<"c", "d">>

\* a line of ten fields: id, form, lemma and seven placeholders
TokenLine(id, form, lemma) ==
  Join(<<id, form, lemma>> \o [k \in 1..7 |-> Placeholder], <<Tab>>)

\* a range line: "<first>-<last>", the form and eight placeholders
RangeLine(first, last, form) ==
  Join(<<DecStr(first) \o <<"-">> \o DecStr(last), form>>
       \o [k \in 1..8 |-> Placeholder], <<Tab>>)

\* the token line of id k; the line of id 1 carries a lemma
WordLine(k) == TokenLine(DecStr(k), FormAB, IF k = 1 THEN <<"l">> ELSE Placeholder)

\* lines of fewer than ten fields: an id alone, an id and a form
ShortLines == {<<"2">>, <<"2", Tab, "a", "b">>}

BodyVocab ==
  {WordLine(k) : k \in 1..MaxId}
  \cup {RangeLine(f, f + 1, FormCD) : f \in 1..(MaxId - 1)}
  \cup ShortLines

CommentVocab ==
  {<<"#", " ", "a", " ", "=", " ", "x">>,
   <<"#", " ", "a", " ", "=", " ", "y">>,
   <<"#", " ", "1", " ", "=", " ", "y">>,
   <<"#", " ", "n">>}

\* the text of a sequence of lines, each ended by a newline
TextOf(lines) == Join(lines \o << <<>> >>, <<Newline>>)

BodyTexts == {TextOf(ls) : ls \in SeqsOf(BodyVocab, 0, MaxLines)}

MetaTexts ==
  {TextOf(cs \o <<WordLine(1)>>) : cs \in SeqsOf(CommentVocab, 0, MaxComments)}

Texts == BodyTexts \cup MetaTexts

\* a Token as client code builds it: id, form and a lemma
WordToken(id) ==
  [NewToken EXCEPT !.id = Num(id), !.form = Str(FormAB), !.lemma = Str(<<"l">>)]

\* The entries of a Sentence that client code filled through the public
\* `tokens` array: shape[k] = 0 is a Token, shape[k] = n > 0 a MultiwordToken of
\* n children; the ids are 1, 2, ... in display order.
RECURSIVE Populated(_, _)
Populated(shape, nextId) ==
  IF shape = <<>> THEN <<>>
  ELSE IF Head(shape) = 0
  THEN <<WordToken(nextId)>> \o Populated(Tail(shape), nextId + 1)
  ELSE <<[NewMultiwordToken EXCEPT
            !.form = Str(FormCD),
            !.tokens = [c \in 1..Head(shape) |-> WordToken(nextId + c - 1)]]>>
       \o Populated(Tail(shape), nextId + Head(shape))

Shapes == SeqsOf(0..MaxMwtLen, 1, MaxEntries)

\* the metadata of a populated Sentence: client code set metadata.k = "v"
PopulatedMetadata == <<[key |-> <<"k">>, value |-> <<"v">>]>>

\* the text parsed into a populated Sentence
PopulatedInput == TextOf(<<WordLine(1)>>)

(***************************************************************************)
(* The state machine of a Sentence.                                        *)
(*   input     the text the caller holds                                   *)
(*   metadata, tokens   the fields of the Sentence                         *)
(*   err       the exception the last operation ended with, or "none"      *)
(*   out       the text the last read of `serial` returned                 *)
(*   log       the last operations (at most two), each with its arguments  *)
(*             and the tokens and metadata it started from (a parse keeps  *)
(*             only whether it started from a Sentence holding both)       *)
(*   nEdits    the number of expand and collapse calls since the last      *)
(*             parse                                                       *)
(*   nParses   the number of parses so far                                 *)
(***************************************************************************)
Self == [metadata |-> metadata, tokens |-> tokens]

NoOut == [valid |-> FALSE, text |-> <<>>]

OpRecord(name, token_id, index) ==
  [name |-> name, token_id |-> token_id, index |-> index,
   pre |-> tokens, preMeta |-> metadata,
   dirty |-> metadata # <<>> /\ tokens # <<>>]

\* the log keeps the last two operations
Logged(rec) == IF log = <<>> THEN <<rec>> ELSE <<log[Len(log)], rec>>

Last == log[Len(log)]

IdleToken ==
  /\ line = <<>>
  /\ tok = NewToken
  /\ tout = NoOut
  /\ tpc = "idle"

Init ==
  /\ \/ /\ input \in Texts
        /\ metadata = <<>>
        /\ tokens = <<>>
     \/ /\ input = PopulatedInput
        /\ metadata = PopulatedMetadata
        /\ \E shape \in Shapes : tokens = Populated(shape, 1)
  /\ err = "none"
  /\ out = NoOut
  /\ log = <<>>
  /\ nEdits = 0
  /\ nParses = 0
  /\ IdleToken

\* sentence.serial = input
Parse ==
  /\ nParses < MaxParses
  /\ LET r == SentenceSerialSet(Self, input) IN
       /\ metadata' = r.metadata
       /\ tokens' = r.tokens
       /\ err' = r.err
  /\ log' = <<[OpRecord("parse", Undefined, 0) EXCEPT !.pre = <<>>,
                                                      !.preMeta = <<>>]>>
  /\ out' = NoOut
  /\ nEdits' = 0
  /\ nParses' = nParses + 1
  /\ UNCHANGED input
  /\ UNCHANGED tokenVars

\* reading sentence.serial
Serialize ==
  /\ ~out.valid
  /\ out' = [valid |-> TRUE, text |-> SentenceSerialGet(Self)]
  /\ UNCHANGED <<input, metadata, tokens, err, log, nEdits, nParses>>
  /\ UNCHANGED tokenVars

\* the ids an edit is called with: the id of every entry, the id of the first
\* child of every MultiwordToken, and an id no entry has
AbsentId == Num(0)

CandidateIds ==
  {EntryId(tokens[k]) : k \in 1..Len(tokens)}
  \cup {tokens[k].tokens[1].id :
          k \in {j \in 1..Len(tokens) : IsMultiwordToken(tokens[j])}}
  \cup {AbsentId}

Indices == 0..MaxIndex

Expand(token_id, index) ==
  /\ nEdits < MaxEdits
  /\ LET r == expand(Self, token_id, index) IN
       /\ metadata' = r.metadata
       /\ tokens' = r.tokens
       /\ err' = r.err
  /\ log' = Logged(OpRecord("expand", token_id, index))
  /\ out' = NoOut
  /\ nEdits' = nEdits + 1
  /\ UNCHANGED <<input, nParses>>
  /\ UNCHANGED tokenVars

Collapse(token_id) ==
  /\ nEdits < MaxEdits
  /\ LET r == collapse(Self, token_id) IN
       /\ metadata' = r.metadata
       /\ tokens' = r.tokens
       /\ err' = r.err
  /\ log' = Logged(OpRecord("collapse", token_id, 0))
  /\ out' = NoOut
  /\ nEdits' = nEdits + 1
  /\ UNCHANGED <<input, nParses>>
  /\ UNCHANGED tokenVars

Next ==
  \/ Parse
  \/ Serialize
  \/ \E token_id \in CandidateIds, index \in Indices : Expand(token_id, index)
  \/ \E token_id \in CandidateIds : Collapse(token_id)

Spec == Init /\ [][Next]_vars

(***************************************************************************)
(* The state machine of a single Token: a line is parsed into a Token, or  *)
(* client code builds a Token field by field, and the Token is serialized. *)
(*   line   the text given to Token.serial                                 *)
(*   tok    the Token                                                      *)
(*   tout   the text the last read of Token.serial returned                *)
(*   tpc    "new" before the parse, "parsed" after it, "built" for a Token *)
(*          that client code filled, "idle" when the Token is not in use   *)
(***************************************************************************)
NumFields == 10

IdFields == {<<"1">>, <<"1", "2">>, <<"0">>, <<"0", "1">>, <<"_">>, <<>>}

FormFields == {FormAB, Placeholder, <<>>}

OtherFields == {<<"v">>, Placeholder, <<>>}

\* the lines of 1 to NumFields + 1 fields; the fields after the form are alike
TokenLines ==
  {Join(<<id, form>> \o [k \in 1..(n - 2) |-> other], <<Tab>>) :
     id \in IdFields, form \in FormFields, other \in OtherFields,
     n \in 2..(NumFields + 1)}
  \cup IdFields

BuiltValues == {Undefined, Str(<<>>), Str(<<"v">>)}

BuiltTokens ==
  {[NewToken EXCEPT !.id = id, !.form = form, !.lemma = lemma, !.misc = misc] :
     id \in {Undefined, Str(<<>>), Num(1)}, form \in BuiltValues,
     lemma \in BuiltValues, misc \in BuiltValues}

IdleSentence ==
  /\ input = <<>>
  /\ metadata = <<>>
  /\ tokens = <<>>
  /\ out = NoOut
  /\ log = <<>>
  /\ nEdits = 0
  /\ nParses = 0

TokenInit ==
  /\ \/ /\ line \in TokenLines
        /\ tok = NewToken
        /\ tpc = "new"
     \/ /\ line = <<>>
        /\ tok \in BuiltTokens
        /\ tpc = "built"
  /\ tout = NoOut
  /\ err = "none"
  /\ IdleSentence

\* token.serial = line
TokenParse ==
  /\ tpc = "new"
  /\ tok' = TokenSerialSet(tok, line)
  /\ tpc' = "parsed"
  /\ err' = "none"
  /\ UNCHANGED <<line, tout>>
  /\ UNCHANGED <<input, metadata, tokens, out, log, nEdits, nParses>>

\* reading token.serial
TokenSerialize ==
  /\ tpc \in {"parsed", "built"}
  /\ ~tout.valid
  /\ tout' = [valid |-> TRUE, text |-> TokenSerialGet(tok)]
  /\ UNCHANGED <<line, tok, tpc>>
  /\ UNCHANGED sentenceVars

TokenNext == TokenParse \/ TokenSerialize

SpecToken == TokenInit /\ [][TokenNext]_vars

(***************************************************************************)
(* Properties.                                                             *)
(***************************************************************************)
\* the ids of the Tokens and of the children of the MultiwordTokens, in
\* display order
RECURSIVE AllIds(_)
AllIds(toks) ==
  IF toks = <<>> THEN <<>>
  ELSE (IF IsMultiwordToken(Head(toks))
        THEN [c \in 1..Len(Head(toks).tokens) |-> Head(toks).tokens[c].id]
        ELSE <<Head(toks).id>>)
       \o AllIds(Tail(toks))

\* the ids are 1, 2, ..., m in display order
Contiguous(toks) ==
  \A k \in 1..Len(AllIds(toks)) : AllIds(toks)[k] = Num(k)

EntryIds(toks) == [k \in 1..Len(toks) |-> EntryId(toks[k])]

Kinds(toks) == [k \in 1..Len(toks) |-> toks[k].kind]

\* the least element of a non-empty set of numbers
Least(S) == CHOOSE x \in S : \A y \in S : x <= y

\* the entry e with d added to its id, or to the id of each of its children
Renumbered(e, d) ==
  IF IsMultiwordToken(e)
  THEN [e EXCEPT !.tokens = [c \in 1..Len(e.tokens) |->
                               [e.tokens[c] EXCEPT !.id = Num(e.tokens[c].id.n + d)]]]
  ELSE [e EXCEPT !.id = Num(e.id.n + d)]

\* the positions of the standalone Tokens of toks whose id is token_id
ExpandTargets(toks, token_id) ==
  {p \in 1..Len(toks) : ~IsMultiwordToken(toks[p]) /\ toks[p].id = token_id}

\* the first standalone Token of id token_id exists and has a form to split
HasExpandTarget(toks, token_id) ==
  /\ ExpandTargets(toks, token_id) # {}
  /\ toks[Least(ExpandTargets(toks, token_id))].form.t = "string"

\* the positions of the MultiwordTokens of toks whose id is token_id
CollapseTargets(toks, token_id) ==
  {p \in 1..Len(toks) : IsMultiwordToken(toks[p]) /\ EntryId(toks[p]) = token_id}

LastIs(name) == log # <<>> /\ Last.name = name

\* the first n characters of f, and the others
Take(f, n) == SubSeq(f, 1, IF n < Len(f) THEN n ELSE Len(f))

Drop(f, n) == SubSeq(f, (IF n < Len(f) THEN n ELSE Len(f)) + 1, Len(f))

\* C2: an expand or a collapse, with any arguments, applied to a Sentence whose
\* ids are 1..n in display order leaves a Sentence whose ids are 1..m in
\* display order: no gap, no duplicate.  Every call of every run is checked, so
\* the property holds after any sequence of calls.
C2_IdContiguity ==
  (/\ log # <<>>
   /\ Last.name \in {"expand", "collapse"}
   /\ Contiguous(Last.pre))
  => Contiguous(tokens)

\* an expand and then a collapse have both changed a Sentence that started with
\* contiguous ids and holds a MultiwordToken
C2_Witness ==
  /\ Len(log) = 2
  /\ log[1].name = "expand"
  /\ log[2].name = "collapse"
  /\ Contiguous(log[1].pre)
  /\ log[1].pre # log[2].pre
  /\ log[2].pre # tokens
  /\ Len(AllIds(tokens)) >= 3
  /\ \E k \in 1..Len(tokens) : IsMultiwordToken(tokens[k])

\* the id of the MultiwordToken that expanding the Token of id token_id creates
CreatedId(token_id) ==
  Str(DecStr(token_id.n) \o <<"-">> \o DecStr(token_id.n + 1))

ExpandThenCollapse ==
  /\ Len(log) = 2
  /\ log[1].name = "expand"
  /\ log[2].name = "collapse"
  /\ Contiguous(log[1].pre)
  /\ HasExpandTarget(log[1].pre, log[1].token_id)
  /\ log[2].token_id = CreatedId(log[1].token_id)

\* C3: in a Sentence with contiguous ids, expanding a standalone Token and then
\* collapsing the MultiwordToken that the expand created restores the number of
\* entries and the ids of the Sentence, in display order.
C3_ExpandCollapseInverse ==
  ExpandThenCollapse
  => /\ Len(tokens) = Len(log[1].pre)
     /\ Kinds(tokens) = Kinds(log[1].pre)
     /\ EntryIds(tokens) = EntryIds(log[1].pre)
     /\ AllIds(tokens) = AllIds(log[1].pre)

\* the expanded Token was followed by a MultiwordToken and split inside its form
C3_Witness ==
  /\ ExpandThenCollapse
  /\ log[1].index = 1
  /\ \E p \in ExpandTargets(log[1].pre, log[1].token_id) :
       \E k \in (p + 1)..Len(tokens) : IsMultiwordToken(tokens[k])

\* C6: expand(token_id, index), when a standalone Token of id token_id and form
\* f stands at position p (the first such position), replaces the entry at p by
\* a MultiwordToken of form f with two children, (token_id, f[0:index]) and
\* (token_id + 1, f[index:]); the entries before p are unchanged and every id
\* after p, of a Token or of a child, is one more.
C6_ExpandPost ==
  (LastIs("expand") /\ HasExpandTarget(Last.pre, Last.token_id))
  => LET pre == Last.pre
         p == Least(ExpandTargets(pre, Last.token_id))
         f == pre[p].form.s
     IN /\ Len(tokens) = Len(pre)
        /\ IsMultiwordToken(tokens[p])
        /\ tokens[p].form = Str(f)
        /\ Len(tokens[p].tokens) = 2
        /\ tokens[p].tokens[1].kind = "Token"
        /\ tokens[p].tokens[1].id = Last.token_id
        /\ tokens[p].tokens[1].form = Str(Take(f, Last.index))
        /\ tokens[p].tokens[2].kind = "Token"
        /\ tokens[p].tokens[2].id = Num(Last.token_id.n + 1)
        /\ tokens[p].tokens[2].form = Str(Drop(f, Last.index))
        /\ \A k \in 1..(p - 1) : tokens[k] = pre[k]
        /\ \A k \in (p + 1)..Len(pre) : tokens[k] = Renumbered(pre[k], 1)

\* a Token was split inside its form, with a MultiwordToken after it
C6_Witness ==
  /\ LastIs("expand")
  /\ HasExpandTarget(Last.pre, Last.token_id)
  /\ Last.index = 1
  /\ \E k \in (Least(ExpandTargets(Last.pre, Last.token_id)) + 1)..Len(tokens) :
       IsMultiwordToken(tokens[k]) /\ Len(tokens[k].tokens) = 3

\* C7: collapse(token_id), when a MultiwordToken of id token_id with mwt_length
\* children stands at position p (the first such position), replaces the entry
\* at p by a Token with the id of the first child and the form of the group;
\* the entries before p are unchanged and every id after p, of a Token or of a
\* child, is mwt_length - 1 less; for every mwt_length >= 1.
C7_CollapsePost ==
  (LastIs("collapse") /\ CollapseTargets(Last.pre, Last.token_id) # {})
  => LET pre == Last.pre
         p == Least(CollapseTargets(pre, Last.token_id))
         mwt_length == Len(pre[p].tokens)
     IN /\ Len(tokens) = Len(pre)
        /\ tokens[p].kind = "Token"
        /\ tokens[p].tokens = <<>>
        /\ tokens[p].id = pre[p].tokens[1].id
        /\ tokens[p].form = pre[p].form
        /\ \A k \in 1..(p - 1) : tokens[k] = pre[k]
        /\ \A k \in (p + 1)..Len(pre) :
             tokens[k] = Renumbered(pre[k], 0 - (mwt_length - 1))

\* a group of three children was collapsed, with a MultiwordToken after it
C7_Witness ==
  /\ LastIs("collapse")
  /\ CollapseTargets(Last.pre, Last.token_id) # {}
  /\ LET p == Least(CollapseTargets(Last.pre, Last.token_id)) IN
       /\ Len(Last.pre[p].tokens) = 3
       /\ \E k \in (p + 1)..Len(tokens) : IsMultiwordToken(tokens[k])

(***************************************************************************)
(* Well-formed sentence text: comment lines `# key = value`, then token    *)
(* lines and range lines each followed by its child lines, every line      *)
(* ended by a newline and every field non-empty.                           *)
(***************************************************************************)
\* a positive integer in decimal, without a leading zero
IsCanonicalId(cs) == AllDigits(cs) /\ cs[1] # "0"

IsCommentLine(ln) ==
  /\ Len(ln) >= 2
  /\ ln[1] = "#"
  /\ ln[2] = " "
  /\ \E q \in 3..Len(ln) : IsSeparatorAt(ln, q)

HasTenFields(ln) ==
  /\ Len(Split(ln, Tab)) = NumFields
  /\ \A k \in 1..NumFields : Split(ln, Tab)[k] # <<>>

IsTokenLine(ln) == HasTenFields(ln) /\ IsCanonicalId(Split(ln, Tab)[1])

\* the numbers <first, last> of the id "<first>-<last>"
RangeOf(id) ==
  <<DecVal(SubSeq(id, 1, IndexOf(id, "-") - 1)),
    DecVal(SubSeq(id, IndexOf(id, "-") + 1, Len(id)))>>

IsRangeLine(ln) ==
  /\ HasTenFields(ln)
  /\ LET id == Split(ln, Tab)[1] IN
       /\ Includes(id, "-")
       /\ IsCanonicalId(SubSeq(id, 1, IndexOf(id, "-") - 1))
       /\ IsCanonicalId(SubSeq(id, IndexOf(id, "-") + 1, Len(id)))
       /\ RangeOf(id)[1] < RangeOf(id)[2]
  /\ \A k \in 3..NumFields : Split(ln, Tab)[k] = Placeholder

\* the child lines of the range line at position i follow it, in order
HasChildLines(lines, i) ==
  LET r == RangeOf(Split(lines[i], Tab)[1]) IN
  /\ i + (r[2] - r[1] + 1) <= Len(lines)
  /\ \A c \in 1..(r[2] - r[1] + 1) :
       /\ IsTokenLine(lines[i + c])
       /\ Split(lines[i + c], Tab)[1] = DecStr(r[1] + c - 1)

RECURSIVE WellFormedBody(_, _)
WellFormedBody(lines, i) ==
  IF i > Len(lines) THEN TRUE
  ELSE IF IsRangeLine(lines[i])
  THEN /\ HasChildLines(lines, i)
       /\ LET r == RangeOf(Split(lines[i], Tab)[1]) IN
            WellFormedBody(lines, i + (r[2] - r[1] + 1) + 1)
  ELSE IsTokenLine(lines[i]) /\ WellFormedBody(lines, i + 1)

\* the lines of a text that ends with a newline
LinesOf(text) == SubSeq(Split(text, Newline), 1, Len(Split(text, Newline)) - 1)

\* the number of comment lines at the head of lines
RECURSIVE CommentCount(_)
CommentCount(lines) ==
  IF lines # <<>> /\ IsCommentLine(Head(lines))
  THEN 1 + CommentCount(Tail(lines))
  ELSE 0

WellFormedText(text) ==
  /\ text # <<>>
  /\ text[Len(text)] = Newline
  /\ CommentCount(LinesOf(text)) < Len(LinesOf(text))
  /\ WellFormedBody(LinesOf(text), CommentCount(LinesOf(text)) + 1)

\* the keys of the comment lines of a text, in the order of the lines
CommentKeys(lines) ==
  LET cs == SelectSeq(lines, LAMBDA ln : StartsWith(ln, "#") /\ MetadataMatch(ln).matched)
  IN [k \in 1..Len(cs) |-> MetadataMatch(cs[k]).key]

Distinct(seq) == \A i, j \in 1..Len(seq) : seq[i] = seq[j] => i = j

\* C1: reading `serial` after assigning a well-formed text to it returns the
\* text.  The texts whose comment lines repeat a key are left out: the
\* metadata is a mapping, and the statement is about the others.
C1_RoundTrip ==
  (/\ out.valid
   /\ LastIs("parse")
   /\ WellFormedText(input)
   /\ Distinct(CommentKeys(LinesOf(input))))
  => out.text = input

RECURSIVE ExpectedEntries(_, _)
ExpectedEntries(lines, i) ==
  IF i > Len(lines) THEN <<>>
  ELSE IF IsRangeLine(lines[i])
  THEN LET r == RangeOf(Split(lines[i], Tab)[1]) IN
       <<[kind |-> "MultiwordToken",
          form |-> Split(lines[i], Tab)[2],
          ids |-> [c \in 1..(r[2] - r[1] + 1) |-> Num(r[1] + c - 1)]]>>
       \o ExpectedEntries(lines, i + (r[2] - r[1] + 1) + 1)
  ELSE <<[kind |-> "Token",
          form |-> Split(lines[i], Tab)[2],
          ids |-> <<Num(DecVal(Split(lines[i], Tab)[1]))>>]>>
       \o ExpectedEntries(lines, i + 1)

EntriesOf(toks) ==
  [k \in 1..Len(toks) |->
     [kind |-> toks[k].kind,
      form |-> toks[k].form.s,
      ids |-> AllIds(<<toks[k]>>)]]

HasRangeLine(text) ==
  \E i \in 1..Len(LinesOf(text)) : IsRangeLine(LinesOf(text)[i])

Rendered(v) == IF v = Undefined \/ v = Str(<<>>) THEN Placeholder ELSE StringOf(v)

\* C8: the serialized Token is its ten fields, id first and form second, joined
\* by tabs, each unset or empty field (form included) as the placeholder.
C8_TokenSerialization ==
  tout.valid
  => tout.text = Join(<<Rendered(tok.id), Rendered(tok.form), Rendered(tok.lemma),
                        Rendered(tok.upostag), Rendered(tok.xpostag),
                        Rendered(tok.feats), Rendered(tok.head),
                        Rendered(tok.deprel), Rendered(tok.deps),
                        Rendered(tok.misc)>>, <<Tab>>)

\* C9: the serialized Sentence is one line `# key = value` for each metadata
\* entry in insertion order, then the serialized form of each entry in display
\* order, then the empty line that ends the sentence.
C9_SentenceSerialization ==
  out.valid
  => out.text = Join([k \in 1..Len(metadata) |-> MetadataLine(metadata[k])]
                     \o [k \in 1..Len(tokens) |-> EntrySerialGet(tokens[k])]
                     \o << <<>> >>,
                     <<Newline>>)

\* the lines of a text that are token lines of fewer than ten fields
ShortLinesOf(text) ==
  {i \in 1..Len(LinesOf(text)) :
     /\ LinesOf(text)[i] # <<>>
     /\ ~StartsWith(LinesOf(text)[i], "#")
     /\ Len(Split(LinesOf(text)[i], Tab)) < NumFields}

\* C10: parsing a text with a token line of fewer than ten fields fails with
\* MalformedLineError, and no Token is made of that line.
C10_ShortLineFails ==
  (LastIs("parse") /\ ShortLinesOf(input) # {})
  => /\ err = "MalformedLineError"
     /\ \A k \in 1..Len(tokens) : tokens[k].misc # Undefined


\* C11: expand(token_id, index), when no standalone Token of the Sentence has
\* the id token_id (no entry has it, or only a MultiwordToken or a child of
\* one), leaves the entries, with their ids, forms and order, and the metadata
\* as they were, and raises nothing.
C11_ExpandNoOp ==
  (LastIs("expand") /\ ExpandTargets(Last.pre, Last.token_id) = {})
  => /\ tokens = Last.pre
     /\ metadata = Last.preMeta
     /\ err = "none"

\* expand was called with the id of a MultiwordToken that has an entry after
\* it, in a Sentence with metadata
C11_Witness ==
  /\ LastIs("expand")
  /\ ExpandTargets(Last.pre, Last.token_id) = {}
  /\ Last.preMeta # <<>>
  /\ \E p \in 1..(Len(Last.pre) - 1) :
       /\ IsMultiwordToken(Last.pre[p])
       /\ EntryId(Last.pre[p]) = Last.token_id


\* the positions of the entries of toks, of either kind, whose id is token_id
EntriesWithId(toks, token_id) ==
  {p \in 1..Len(toks) : EntryId(toks[p]) = token_id}

\* C12: collapse(token_id), when no entry has the id token_id or the entries
\* that have it are standalone Tokens, leaves the entries and the metadata as
\* they were: no entry is replaced and no later id is changed.
C12_CollapseNoOp ==
  (/\ LastIs("collapse")
   /\ \A p \in EntriesWithId(Last.pre, Last.token_id) :
        ~IsMultiwordToken(Last.pre[p]))
  => /\ tokens = Last.pre
     /\ metadata = Last.preMeta
     /\ err = "none"

\* collapse was called with the id of a standalone Token that has a
\* MultiwordToken after it
C12_Witness ==
  /\ LastIs("collapse")
  /\ \E p \in EntriesWithId(Last.pre, Last.token_id) :
       /\ ~IsMultiwordToken(Last.pre[p])
       /\ \E k \in (p + 1)..Len(Last.pre) : IsMultiwordToken(Last.pre[k])
  /\ \A p \in EntriesWithId(Last.pre, Last.token_id) :
       ~IsMultiwordToken(Last.pre[p])


\* a line of exactly ten fields, none of them empty or the placeholder
IsFullLine(ln) ==
  /\ Len(Split(ln, Tab)) = NumFields
  /\ \A k \in 1..NumFields :
       Split(ln, Tab)[k] # <<>> /\ Split(ln, Tab)[k] # Placeholder

\* C13: a line of exactly ten non-empty, non-placeholder fields, parsed into a
\* Token and serialized, comes back unchanged; the id of the Token is an
\* integer when the first field is a positive integer in decimal and the first
\* field itself otherwise.
C13_TokenRoundTrip ==
  (tpc = "parsed" /\ IsFullLine(line))
  => /\ tok.id = (IF IsCanonicalId(Split(line, Tab)[1])
                  THEN Num(DecVal(Split(line, Tab)[1]))
                  ELSE Str(Split(line, Tab)[1]))
     /\ tout.valid => tout.text = line


\* the lines that are neither blank, nor comments, nor range lines
PlainLines(lines) ==
  SelectSeq(lines, LAMBDA ln : /\ ln # <<>>
                               /\ ~StartsWith(ln, "#")
                               /\ ~Includes(Split(ln, Tab)[1], "-"))

\* the Tokens of toks, the children of the MultiwordTokens included
RECURSIVE AllTokens(_)
AllTokens(toks) ==
  IF toks = <<>> THEN <<>>
  ELSE (IF IsMultiwordToken(Head(toks)) THEN Head(toks).tokens ELSE <<Head(toks)>>)
       \o AllTokens(Tail(toks))

\* the number of elements of seq equal to v
Count(seq, v) == Cardinality({k \in 1..Len(seq) : seq[k] = v})

\* C14: after a parse that raised nothing, every line that is neither a
\* comment, nor blank, nor a range line is represented by exactly one Token, as
\* an entry or as a child of a group: the Sentence holds as many Tokens as the
\* text has such lines, and each Token as often as the text has its line.
C14_OneTokenPerLine ==
  (LastIs("parse") /\ err = "none")
  => LET plain == PlainLines(Split(input, Newline))
         made == [k \in 1..Len(plain) |-> TokenSerialSet(NewToken, plain[k])]
         held == AllTokens(tokens)
     IN /\ Len(held) = Len(made)
        /\ \A k \in 1..Len(made) : Count(held, made[k]) = Count(made, made[k])


\* the comment lines `# <key> = <value>` of lines, in order
PatternLines(lines) == SelectSeq(lines, IsCommentLine)

\* the position of the last " = " of a comment line
LastSeparator(ln) ==
  CHOOSE q \in 3..Len(ln) :
    IsSeparatorAt(ln, q) /\ \A r \in (q + 1)..Len(ln) : ~IsSeparatorAt(ln, r)

KeyOf(ln) == SubSeq(ln, 3, LastSeparator(ln) - 1)

ValueOf(ln) == SubSeq(ln, LastSeparator(ln) + 3, Len(ln))

\* the greatest element of a non-empty set of numbers
Greatest(S) == CHOOSE x \in S : \A y \in S : y <= x

\* C15: after a parse, the keys of the metadata are exactly the keys of the
\* comment lines `# <key> = <value>` of the text, each once, and the value of a
\* key is the value of the last such line with that key; the other comment
\* lines add nothing.
C15_MetadataLastWins ==
  LastIs("parse")
  => LET ms == PatternLines(Split(input, Newline)) IN
     /\ {metadata[k].key : k \in 1..Len(metadata)}
          = {KeyOf(ms[j]) : j \in 1..Len(ms)}
     /\ Distinct([k \in 1..Len(metadata) |-> metadata[k].key])
     /\ \A k \in 1..Len(metadata) :
          metadata[k].value
            = ValueOf(ms[Greatest({j \in 1..Len(ms) : KeyOf(ms[j]) = metadata[k].key})])

\* the text had two comment lines with the same key and different values
C15_Witness ==
  /\ LastIs("parse")
  /\ LET ms == PatternLines(Split(input, Newline)) IN
       /\ Len(ms) = 2
       /\ KeyOf(ms[1]) = KeyOf(ms[2])
       /\ ValueOf(ms[1]) # ValueOf(ms[2])
  /\ Len(metadata) = 1


\* the eight annotation fields of a Token
Annotations(t) ==
  <<t.lemma, t.upostag, t.xpostag, t.feats, t.head, t.deprel, t.deps, t.misc>>

NoAnnotations == [k \in 1..8 |-> Undefined]

\* the annotation fields of an entry: its own and those of its children
EntryAnnotations(e) ==
  <<Annotations(e)>> \o [c \in 1..Len(e.tokens) |-> Annotations(e.tokens[c])]

\* the position an edit replaces: the first standalone Token (expand) or the
\* first MultiwordToken (collapse) of the id the edit was called with
EditedPosition(rec) ==
  IF rec.name = "expand"
  THEN Least(ExpandTargets(rec.pre, rec.token_id))
  ELSE Least(CollapseTargets(rec.pre, rec.token_id))

\* the edit found an entry to replace
Edited(rec) ==
  \/ rec.name = "expand" /\ HasExpandTarget(rec.pre, rec.token_id)
  \/ rec.name = "collapse" /\ CollapseTargets(rec.pre, rec.token_id) # {}

\* C16: the two children that expand creates and the Token that collapse
\* creates have all eight annotation fields unset, whatever the replaced Token
\* or the children of the replaced group carried; the annotation fields of
\* every other entry, and of its children, are as they were.
C16_InformationLoss ==
  (log # <<>> /\ Edited(Last))
  => LET p == EditedPosition(Last) IN
     /\ Last.name = "expand" =>
          /\ Annotations(tokens[p].tokens[1]) = NoAnnotations
          /\ Annotations(tokens[p].tokens[2]) = NoAnnotations
     /\ Last.name = "collapse" => Annotations(tokens[p]) = NoAnnotations
     /\ \A k \in (1..Len(Last.pre)) \ {p} :
          EntryAnnotations(tokens[k]) = EntryAnnotations(Last.pre[k])

\* a Token with a lemma was expanded and the group was collapsed again, next
\* to an entry that carries a lemma
C16_Witness ==
  /\ Len(log) = 2
  /\ log[1].name = "expand"
  /\ log[2].name = "collapse"
  /\ Edited(log[1])
  /\ Edited(log[2])
  /\ EditedPosition(log[1]) = EditedPosition(log[2])
  /\ log[1].pre[EditedPosition(log[1])].lemma = Str(<<"l">>)
  /\ \E k \in (1..Len(tokens)) \ {EditedPosition(log[2])} :
       \E a \in 1..Len(EntryAnnotations(tokens[k])) :
         EntryAnnotations(tokens[k])[a] # NoAnnotations


\* the positions where an edit put an entry of the other kind
Replaced(rec, toks) ==
  {k \in 1..Len(rec.pre) : k <= Len(toks) /\ toks[k].kind # rec.pre[k].kind}

\* C17: any expand or collapse leaves the metadata and the number of entries
\* as they were and replaces at most one entry: the first one in display order
\* that matches, when there is one, whose predecessors keep their ids and
\* forms; no entry otherwise.
C17_EditFrame ==
  (log # <<>> /\ Last.name \in {"expand", "collapse"})
  => /\ metadata = Last.preMeta
     /\ Len(tokens) = Len(Last.pre)
     /\ Cardinality(Replaced(Last, tokens)) <= 1
     /\ Edited(Last) =>
          /\ Replaced(Last, tokens) = {EditedPosition(Last)}
          /\ \A k \in 1..(EditedPosition(Last) - 1) :
               /\ EntryId(tokens[k]) = EntryId(Last.pre[k])
               /\ AllIds(<<tokens[k]>>) = AllIds(<<Last.pre[k]>>)
               /\ tokens[k].form = Last.pre[k].form
     /\ ~Edited(Last) => Replaced(Last, tokens) = {}

\* expand was called with an id that two standalone Tokens carry, the first of
\* them after another entry
C17_Witness ==
  /\ LastIs("expand")
  /\ Edited(Last)
  /\ Cardinality(ExpandTargets(Last.pre, Last.token_id)) >= 2
  /\ EditedPosition(Last) > 1
  /\ Replaced(Last, tokens) = {EditedPosition(Last)}


\* C18: a parse of the text T by a Sentence that already holds metadata and
\* tokens leaves exactly the metadata and the tokens (and the error, if any)
\* that a parse of T by a fresh Sentence leaves.
C18_ParseReplaces ==
  (LastIs("parse") /\ Last.dirty)
  => LET fresh == SentenceSerialSet(NewSentence, input) IN
     /\ metadata = fresh.metadata
     /\ tokens = fresh.tokens
     /\ err = fresh.err

\* a Sentence that held the metadata and the tokens of an earlier parse parsed
\* a text with a comment line and a token line
C18_Witness ==
  /\ LastIs("parse")
  /\ Last.dirty
  /\ nParses = 2
  /\ metadata # <<>>
  /\ tokens # <<>>

====
